---------------------------- MODULE Spec2Model ----------------------------
(***************************************************************************)
(* A model of system_monitor.cpp: the sampling loop of main(), the /proc   *)
(* readers getSystemInfo() and getProcessInfo(), and the table printed by  *)
(* display().                                                              *)
(*                                                                         *)
(* Text is modelled as sequences of one-character strings, so that         *)
(* parsing, truncation, padding and line widths are computed, not assumed. *)
(* A file is either Absent (the ifstream does not open) or the sequence of *)
(* lines std::getline yields from it (cmdline: its raw bytes).             *)
(***************************************************************************)
EXTENDS Integers, Sequences, FiniteSets, TLC

(***************************************************************************)
(* Bounds of the model (not program constants).                            *)
(***************************************************************************)
\* the largest number of process directories in a patterned /proc listing
MaxProcs == 26
\* the longest Name: value placed in a status file
MaxNameLen == 19
\* the longest command line placed in a cmdline file
MaxCmdLen == 35

(***************************************************************************)
(* Characters and strings.                                                 *)
(***************************************************************************)
\* a file the ifstream cannot open, and one it opens
Absent == [is_open |-> FALSE, data |-> <<>>]
File(data) == [is_open |-> TRUE, data |-> data]

NUL == "\\0"
TAB == "\t"
SP  == " "

DigitChars == <<"0", "1", "2", "3", "4", "5", "6", "7", "8", "9">>

\* ::isdigit on one character
isdigit(c) == \E d \in 1..10 : DigitChars[d] = c

DigitVal(c) == (CHOOSE d \in 1..10 : DigitChars[d] = c) - 1

\* the whitespace operator>> skips (std::isspace in the "C" locale)
isspace(c) == c \in {" ", "\t", "\n", "\r"}

Rep(n, c) == [i \in 1..n |-> c]

Tail0(s, k) == SubSeq(s, k + 1, Len(s))

\* line.rfind(prefix, 0) == 0 : the line starts with the prefix
StartsWith(line, prefix) ==
    /\ Len(line) >= Len(prefix)
    /\ SubSeq(line, 1, Len(prefix)) = prefix

\* decimal digits of a non-negative integer, as operator<< prints it
RECURSIVE ToDigits(_)
ToDigits(n) ==
    IF n < 10 THEN <<DigitChars[n + 1]>>
    ELSE ToDigits(n \div 10) \o <<DigitChars[(n % 10) + 1]>>

\* value of a string of decimal digits (no overflow for the inputs used)
RECURSIVE DigitsValue(_, _)
DigitsValue(s, acc) ==
    IF s = <<>> THEN acc
    ELSE DigitsValue(Tail(s), acc * 10 + DigitVal(Head(s)))

(***************************************************************************)
(* std::stringstream extraction, as used by getMemValue, getSystemInfo and *)
(* getProcessInfo.                                                         *)
(***************************************************************************)
\* number of leading characters of s that satisfy isspace
RECURSIVE LeadingSpaces(_)
LeadingSpaces(s) ==
    IF s # <<>> /\ isspace(Head(s)) THEN 1 + LeadingSpaces(Tail(s)) ELSE 0

SkipWs(s) == Tail0(s, LeadingSpaces(s))

\* number of leading characters of s that are not whitespace
RECURSIVE TokenLen(_)
TokenLen(s) ==
    IF s # <<>> /\ ~isspace(Head(s)) THEN 1 + TokenLen(Tail(s)) ELSE 0

RECURSIVE DigitRun(_)
DigitRun(s) ==
    IF s # <<>> /\ isdigit(Head(s)) THEN 1 + DigitRun(Tail(s)) ELSE 0

\* ss >> str : [ok, val, rest]; an empty remainder sets failbit and val is ""
ExtractString(s) ==
    LET t == SkipWs(s)
        n == TokenLen(t)
    IN  [ok |-> n > 0, val |-> SubSeq(t, 1, n), rest |-> Tail0(t, n)]

\* ss >> long : [ok, val]; on failure the value is set to 0 (C++11)
ExtractLong(s) ==
    LET t    == SkipWs(s)
        neg  == t # <<>> /\ Head(t) = "-"
        sgn  == t # <<>> /\ Head(t) \in {"-", "+"}
        body == IF sgn THEN Tail(t) ELSE t
        n    == DigitRun(body)
        mag  == DigitsValue(SubSeq(body, 1, n), 0)
    IN  IF n = 0 THEN [ok |-> FALSE, val |-> 0]
        ELSE [ok |-> TRUE, val |-> IF neg THEN 0 - mag ELSE mag]

\* ss >> char : [ok, val]; on failure the target is left untouched
ExtractChar(s) ==
    LET t == SkipWs(s)
    IN  IF t = <<>> THEN [ok |-> FALSE, val |-> ""]
        ELSE [ok |-> TRUE, val |-> Head(t)]

\* long getMemValue(const std::string& line)
getMemValue(line) ==
    LET k == ExtractString(line)
    IN  IF k.ok THEN ExtractLong(k.rest).val ELSE 0


(***************************************************************************)
(* String literals of the program.                                         *)
(***************************************************************************)
KeyMemTotal == <<"M", "e", "m", "T", "o", "t", "a", "l", ":">>
KeyMemFree  == <<"M", "e", "m", "F", "r", "e", "e", ":">>
KeyName     == <<"N", "a", "m", "e", ":">>
KeyState    == <<"S", "t", "a", "t", "e", ":">>
KeyVmRSS    == <<"V", "m", "R", "S", "S", ":">>

DefaultLoadAvg == <<"0", ".", "0", " ", "0", ".", "0", " ", "0", ".", "0">>
DefaultName    == <<"N", "/", "A">>
DefaultState   == "?"
DefaultCmdline == <<"[", "k", "e", "r", "n", "e", "l", "]">>

\* struct SystemInfo, default member initialisers
SystemInfo ==
    [total_mem_kb |-> 0, free_mem_kb |-> 0, load_avg |-> DefaultLoadAvg]

\* ProcessInfo without the default member initialiser of name
ProcessInfoNoDefaults ==
    [pid |-> 0, name |-> <<>>, state |-> DefaultState,
     vmrss_kb |-> 0, cmdline |-> DefaultCmdline]

\* struct ProcessInfo, default member initialisers
ProcessInfo ==
    [pid |-> 0, name |-> DefaultName, state |-> DefaultState,
     vmrss_kb |-> 0, cmdline |-> DefaultCmdline]

(***************************************************************************)
(* getSystemInfo: /proc/meminfo and /proc/loadavg.                         *)
(***************************************************************************)
\* the while (getline(meminfo, line)) loop
RECURSIVE ScanMeminfo(_, _)
ScanMeminfo(lines, sys) ==
    IF lines = <<>> THEN sys
    ELSE LET line == Head(lines)
             nxt  == IF StartsWith(line, KeyMemTotal)
                       THEN [sys EXCEPT !.total_mem_kb = getMemValue(line)]
                     ELSE IF StartsWith(line, KeyMemFree)
                       THEN [sys EXCEPT !.free_mem_kb = getMemValue(line)]
                     ELSE sys
         IN  ScanMeminfo(Tail(lines), nxt)

\* the first line of a file as getline leaves it ("" for an empty file)
FirstLine(lines) == IF lines = <<>> THEN <<>> ELSE Head(lines)

\* ss >> load1 >> load5 >> load15; load1 + " " + load5 + " " + load15
JoinLoad(line) ==
    LET a == ExtractString(line)
        b == IF a.ok THEN ExtractString(a.rest)
             ELSE [ok |-> FALSE, val |-> <<>>, rest |-> <<>>]
        c == IF b.ok THEN ExtractString(b.rest)
             ELSE [ok |-> FALSE, val |-> <<>>, rest |-> <<>>]
    IN  a.val \o <<SP>> \o b.val \o <<SP>> \o c.val

getSystemInfo(meminfo, loadavg) ==
    LET s1 == IF ~meminfo.is_open THEN SystemInfo
              ELSE ScanMeminfo(meminfo.data, SystemInfo)
    IN  IF ~loadavg.is_open THEN s1
        ELSE [s1 EXCEPT !.load_avg = JoinLoad(FirstLine(loadavg.data))]

(***************************************************************************)
(* getProcessInfo: /proc/[pid]/status and /proc/[pid]/cmdline.             *)
(***************************************************************************)
IntMaxDigits == <<"2", "1", "4", "7", "4", "8", "3", "6", "4", "7">>

RECURSIVE LeadingZeros(_)
LeadingZeros(s) ==
    IF s # <<>> /\ Head(s) = "0" THEN 1 + LeadingZeros(Tail(s)) ELSE 0

\* a < b for digit strings of equal length
RECURSIVE DigitsLess(_, _)
DigitsLess(a, b) ==
    IF a = <<>> THEN FALSE
    ELSE IF Head(a) # Head(b) THEN DigitVal(Head(a)) < DigitVal(Head(b))
    ELSE DigitsLess(Tail(a), Tail(b))

\* std::stoi on a string of decimal digits: the value, or std::out_of_range
\* when it does not fit an int
stoi(s) ==
    LET t == Tail0(s, LeadingZeros(s))
        fits == \/ Len(t) < Len(IntMaxDigits)
                \/ Len(t) = Len(IntMaxDigits) /\ ~DigitsLess(IntMaxDigits, t)
    IN  IF fits THEN [ok |-> TRUE, val |-> DigitsValue(t, 0)]
        ELSE [ok |-> FALSE, val |-> 0]

\* proc.name.erase(0, proc.name.find_first_not_of(" \t"))
RECURSIVE TrimLeadingBlanks(_)
TrimLeadingBlanks(s) ==
    IF s # <<>> /\ Head(s) \in {SP, TAB} THEN TrimLeadingBlanks(Tail(s)) ELSE s

\* line.substr(6) and the trim; std::out_of_range when the line is shorter
\* than 6 characters
ParseName(line) ==
    IF Len(line) < 6 THEN [ok |-> FALSE, val |-> <<>>]
    ELSE [ok |-> TRUE, val |-> TrimLeadingBlanks(Tail0(line, 6))]

\* ss >> key >> state_char; proc.state = state_char.  state_char is not
\* initialised: when the extraction fails its value is indeterminate, here
\* the parameter garbage
ParseState(line, garbage) ==
    LET k == ExtractString(line)
        c == IF k.ok THEN ExtractChar(k.rest) ELSE [ok |-> FALSE, val |-> ""]
    IN  IF c.ok THEN c.val ELSE garbage

\* the while (getline(status_file, line)) loop; r is [threw, proc]
RECURSIVE ScanStatus(_, _, _)
ScanStatus(lines, r, garbage) ==
    IF lines = <<>> \/ r.threw # "none" THEN r
    ELSE LET line == Head(lines)
             nxt  ==
               IF StartsWith(line, KeyName)
                 THEN LET n == ParseName(line)
                      IN  IF n.ok THEN [r EXCEPT !.proc.name = n.val]
                          ELSE [r EXCEPT !.threw = "substr"]
               ELSE IF StartsWith(line, KeyState)
                 THEN [r EXCEPT !.proc.state = ParseState(line, garbage)]
               ELSE IF StartsWith(line, KeyVmRSS)
                 THEN [r EXCEPT !.proc.vmrss_kb = getMemValue(line)]
               ELSE r
         IN  ScanStatus(Tail(lines), nxt, garbage)

\* std::getline on raw bytes: up to the first newline
RECURSIVE UpToNewline(_)
UpToNewline(bytes) ==
    IF bytes = <<>> \/ Head(bytes) = "\n" THEN <<>>
    ELSE <<Head(bytes)>> \o UpToNewline(Tail(bytes))

\* std::replace(line.begin(), line.end(), '\0', ' ')
ReplaceNul(line) == [i \in 1..Len(line) |-> IF line[i] = NUL THEN SP ELSE line[i]]

\* the cmdline block of getProcessInfo
ReadCmdline(proc, cmdline) ==
    IF ~cmdline.is_open THEN proc
    ELSE LET line == ReplaceNul(UpToNewline(cmdline.data))
         IN  IF line # <<>> THEN [proc EXCEPT !.cmdline = line] ELSE proc

\* ProcessInfo getProcessInfo(const std::string& pid), on the directory entry
\* whose files are e.status and e.cmdline.  The result is [threw, proc]:
\* threw names the exception that leaves the function ("none" when it
\* returns proc)
getProcessInfo(e, garbage) ==
    LET p == stoi(e.d_name)
    IN  IF ~p.ok THEN [threw |-> "stoi", proc |-> ProcessInfo]
        ELSE LET r0 == [threw |-> "none",
                        proc  |-> [ProcessInfo EXCEPT !.pid = p.val]]
                 r1 == IF ~e.status.is_open THEN r0
                       ELSE ScanStatus(e.status.data, r0, garbage)
             IN  IF r1.threw # "none" THEN r1
                 ELSE [r1 EXCEPT !.proc = ReadCmdline(r1.proc, e.cmdline)]

\* compareByMem with the comparison turned round (ascending order)
compareByMemAscending(a, b) == a.vmrss_kb < b.vmrss_kb

\* bool compareByMem(const ProcessInfo& a, const ProcessInfo& b)
compareByMem(a, b) == a.vmrss_kb > b.vmrss_kb

\* bool isNumeric(const std::string& s)
isNumeric(s) == s # <<>> /\ \A i \in 1..Len(s) : isdigit(s[i])

(***************************************************************************)
(* std::cout.  Its format state outlives a call of display(): adjustfield  *)
(* ("none" until a manipulator sets it, which pads like right), floatfield *)
(* and precision.  The width set by setw applies to the next item only.    *)
(***************************************************************************)
CoutInit == [adjust |-> "none", floatfield |-> "none", precision |-> 6]

\* an item of text s written under setw(w): fill characters go after the
\* text when adjustfield is left, before it otherwise
Put(s, w, adjust) ==
    IF Len(s) >= w THEN s
    ELSE IF adjust = "left" THEN s \o Rep(w - Len(s), SP)
    ELSE Rep(w - Len(s), SP) \o s

RECURSIVE Pow10(_)
Pow10(k) == IF k = 0 THEN 1 ELSE 10 * Pow10(k - 1)

RECURSIVE ZeroPad(_, _)
ZeroPad(s, k) == IF Len(s) >= k THEN s ELSE ZeroPad(<<"0">> \o s, k)

\* the double num / den (den a power of two, so the quotient is exact)
\* written in std::fixed notation with prec decimals: the exact value
\* rounded to nearest, ties to even.  Every double display() writes follows
\* std::fixed, so the other notations are not modelled.
FormatFixed(num, den, prec) ==
    LET mag    == IF num < 0 THEN 0 - num ELSE num
        scaled == mag * Pow10(prec)
        q      == scaled \div den
        r      == scaled % den
        up     == (2 * r > den) \/ (2 * r = den /\ q % 2 = 1)
        n      == IF up THEN q + 1 ELSE q
        body   == ToDigits(n \div Pow10(prec)) \o <<".">>
                    \o ZeroPad(ToDigits(n % Pow10(prec)), prec)
    IN  IF num < 0 THEN <<"-">> \o body ELSE body

(***************************************************************************)
(* display(): the literals, the lines and the two row loops.               *)
(***************************************************************************)
\* std::string(86, ...) : the interior width of the borders
BorderWidth == 86
\* 1024.0 * 1024.0 and 1024.0
KbPerGb == 1048576
KbPerMb == 1024
\* proc.name.length() > 18, substr(0, 18)
NameKeep == 18
\* proc.cmdline.length() > 34, substr(0, 34)
CmdKeep == 34
\* the row loop written with 26 for 25
RowLimitOffByOne == 25 + 1
\* if (count++ >= 25) break;
RowLimit == 25
\* while (count++ < 25)
PadLimit == 25

TitleText ==
    <<"-", "-", "-", " ", "S", "y", "s", "t", "e", "m", " ", "M", "o",
      "n", "i", "t", "o", "r", " ", "(", "L", "i", "n", "u", "x",
      ")", " ", "-", "-", "-">>
TxtMemory == <<"|", " ", "M", "e", "m", "o", "r", "y", ":", " ">>
TxtGSlash == <<"G", " ", "/", " ">>
TxtGUsed  == <<"G", " ", "U", "s", "e", "d">>
TxtParen  == <<" ", "(">>
TxtGFree  == <<"G", " ", "F", "r", "e", "e", ")">>
TxtLoad   ==
    <<"L", "o", "a", "d", " ", "A", "v", "g", " ", "(", "1", ",", "5",
      ",", "1", "5", " ", "m", "i", "n", ")", ":", " ">>
TxtTotal  ==
    <<"|", " ", "T", "o", "t", "a", "l", " ", "P", "r", "o", "c", "e",
      "s", "s", "e", "s", ":", " ">>
TxtPID    == <<"P", "I", "D">>
TxtNAME   == <<"N", "A", "M", "E">>
TxtS      == <<"S">>
TxtMEM    == <<"M", "E", "M", " ", "(", "M", "B", ")">>
TxtCOMMAND == <<"C", "O", "M", "M", "A", "N", "D">>
TxtOpen   == <<"|", " ">>
TxtClose  == <<" ", "|">>

BorderLine == <<"+">> \o Rep(BorderWidth, "-") \o <<"+">>

TitleLine ==
    LET pad == (BorderWidth - Len(TitleText)) \div 2
    IN  <<"|">> \o Rep(pad, SP) \o TitleText
          \o Rep(BorderWidth - pad - Len(TitleText), SP) \o <<"|">>

EmptyLine == <<"|">> \o Rep(BorderWidth, SP) \o <<"|">>

SeparatorLine == <<"|">> \o Rep(BorderWidth, "-") \o <<"|">>

\* the "| Memory: ..." statement; adjust is the adjustfield the stream
\* has when the statement runs
SummaryLine(sys, adjust) ==
    TxtMemory
      \o Put(FormatFixed(sys.total_mem_kb - sys.free_mem_kb, KbPerGb, 2), 7, adjust)
      \o TxtGSlash
      \o Put(FormatFixed(sys.total_mem_kb, KbPerGb, 2), 7, adjust)
      \o TxtGUsed \o TxtParen
      \o Put(FormatFixed(sys.free_mem_kb, KbPerGb, 2), 6, adjust)
      \o TxtGFree
      \o Put(<<SP>>, 23, adjust)
      \o TxtLoad
      \o Put(sys.load_avg, 12, adjust)
      \o TxtClose

\* the "| Total Processes: ..." statement
CountLine(n, adjust) == TxtTotal \o Put(ToDigits(n), 67, adjust) \o TxtClose

\* the table header statement (it sets std::left and std::right itself)
HeaderLine ==
    TxtOpen \o Put(TxtPID, 8, "left") \o Put(TxtNAME, 20, "left")
      \o Put(TxtS, 4, "left") \o Put(TxtMEM, 12, "right")
      \o <<SP, SP>> \o Put(TxtCOMMAND, 36, "left") \o TxtClose

\* name_short written with >= for > : a name of exactly 18 characters is cut
NameShortOffByOne(name) ==
    IF Len(name) >= NameKeep THEN SubSeq(name, 1, NameKeep) \o <<".", ".">>
    ELSE name

\* std::string name_short = ...
NameShort(name) ==
    IF Len(name) > NameKeep THEN SubSeq(name, 1, NameKeep) \o <<".", ".">>
    ELSE name

\* std::string cmd_short = ...
CmdShort(cmdline) ==
    IF Len(cmdline) > CmdKeep THEN SubSeq(cmdline, 1, CmdKeep) \o <<".", ".", ".">>
    ELSE cmdline

\* the row statement of the for loop
RowLine(proc) ==
    TxtOpen \o Put(ToDigits(proc.pid), 8, "left")
      \o Put(NameShort(proc.name), 20, "left")
      \o Put(<<proc.state>>, 4, "left")
      \o Put(FormatFixed(proc.vmrss_kb, KbPerMb, 1), 11, "right") \o <<"M">>
      \o <<SP, SP>> \o Put(CmdShort(proc.cmdline), 36, "left") \o TxtClose

\* the statement of the while loop; adjustfield is left after the header
BlankRow == TxtOpen \o Put(<<SP>>, 84, "left") \o TxtClose

\* std::sort(processes.begin(), processes.end(), compareByMem), as an
\* insertion sort driven by compareByMem.  std::sort leaves the order of
\* elements that compare equal unspecified; this one keeps their order.
RECURSIVE SortInsert(_, _)
SortInsert(x, s) ==
    IF s = <<>> THEN <<x>>
    ELSE IF compareByMem(x, Head(s)) THEN <<x>> \o s
    ELSE <<Head(s)>> \o SortInsert(x, Tail(s))

RECURSIVE Sort(_)
Sort(s) ==
    IF s = <<>> THEN <<>>
    ELSE SortInsert(s[Len(s)], Sort(SubSeq(s, 1, Len(s) - 1)))

\* for (const auto& proc : processes) { if (count++ >= 25) break; ... }
\* acc is [count, lines, shown]: the counter, the rows written and the
\* records they were written for
RECURSIVE RowLoop(_, _)
RowLoop(procs, acc) ==
    IF procs = <<>> THEN acc
    ELSE IF acc.count >= RowLimit THEN [acc EXCEPT !.count = @ + 1]
    ELSE RowLoop(Tail(procs),
                 [count |-> acc.count + 1,
                  lines |-> Append(acc.lines, RowLine(Head(procs))),
                  shown |-> Append(acc.shown, Head(procs))])

\* while (count++ < 25) { blank row }
RECURSIVE PadLoop(_, _)
PadLoop(count, lines) ==
    IF count < PadLimit THEN PadLoop(count + 1, Append(lines, BlankRow))
    ELSE lines

\* void display(const SystemInfo& sys, std::vector<ProcessInfo>& processes)
\* run on a stream whose format state is st: the lines written after the
\* clear, the vector as sorted in place, the records that got a row, and the
\* format state the stream is left in
display(st, sys, procs) ==
    LET sorted == Sort(procs)
        head   == <<BorderLine, TitleLine, EmptyLine,
                    SummaryLine(sys, st.adjust),
                    CountLine(Len(procs), st.adjust),
                    EmptyLine, HeaderLine, SeparatorLine>>
        rows   == RowLoop(sorted, [count |-> 0, lines |-> <<>>, shown |-> <<>>])
        body   == PadLoop(rows.count, rows.lines)
    IN  [lines     |-> head \o body \o <<BorderLine>>,
         processes |-> sorted,
         shown     |-> rows.shown,
         cout      |-> [adjust     |-> "left",
                        floatfield |-> "fixed",
                        precision  |-> IF rows.shown = <<>> THEN 2 ELSE 1]]

(***************************************************************************)
(* The /proc contents the program may find.                                *)
(***************************************************************************)
Alpha == <<"a", "b", "c", "d", "e", "f", "g", "h", "i", "j", "k", "l", "m",
           "n", "o", "p", "q", "r", "s", "t", "u", "v", "w", "x", "y", "z">>

\* a process name of n letters
NameOfLen(n) == [i \in 1..n |-> Alpha[((i - 1) % 26) + 1]]

\* the bytes of a cmdline file of n bytes: arguments of four letters, each
\* followed by a NUL
CmdOfLen(n) == [i \in 1..n |-> IF i % 5 = 0 THEN NUL ELSE Alpha[((i - 1) % 26) + 1]]

TxtKb        == <<" ", "k", "B">>
TxtSleeping  == <<" ", "(", "s", "l", "e", "e", "p", "i", "n", "g", ")">>
TxtSelf      == <<"s", "e", "l", "f">>
TxtUptime    == <<"u", "p", "t", "i", "m", "e">>

NameLine(name)  == KeyName \o <<TAB>> \o name
StateLine(c)    == KeyState \o <<TAB, c>> \o TxtSleeping
VmRSSLine(kb)   == KeyVmRSS \o <<TAB>> \o Rep(4, SP) \o ToDigits(kb) \o TxtKb
UmaskLine       == <<"U", "m", "a", "s", "k", ":", TAB, "0", "0", "2", "2">>

StatusOf(name, c, kb) ==
    File(<<NameLine(name), UmaskLine, StateLine(c), VmRSSLine(kb)>>)

MeminfoFiles ==
    { Absent,
      File(<<KeyMemTotal \o Rep(7, SP) \o ToDigits(16301584) \o TxtKb,
             KeyMemFree \o Rep(9, SP) \o ToDigits(8150792) \o TxtKb>>) }

LoadavgFiles ==
    { Absent,
      File(<<<<"0", ".", "5", "2", " ", "0", ".", "5", "8", " ", "0", ".", "5", "9", " ", "1", "/", "3", "8", "9", " ", "1", "2", "3", "4", "5">>>>) }

NameLens == {1} \cup ((NameKeep - 1)..MaxNameLen)
CmdLens  == {1} \cup ((CmdKeep - 1)..MaxCmdLen)

StatusFiles ==
    { Absent, File(<<>>) }
      \cup { StatusOf(NameOfLen(n), "S", 2048) : n \in NameLens }
      \cup { File(<<KeyName>>),
             File(<<KeyName \o <<TAB>>>>),
             File(<<NameLine(NameOfLen(1)), KeyState, VmRSSLine(2048)>>),
             File(<<NameLine(NameOfLen(1)), StateLine("R"), KeyVmRSS>>) }

CmdlineFiles ==
    { Absent, File(<<>>) } \cup { File(CmdOfLen(n)) : n \in CmdLens }

\* digit-only directory names: a small pid, one with leading zeros, INT_MAX
\* and INT_MAX + 1
PidNames ==
    { <<"7">>, <<"0", "0", "4", "2">>, IntMaxDigits,
      <<"2", "1", "4", "7", "4", "8", "3", "6", "4", "8">> }

DirEntry(name, type, status, cmdline) ==
    [d_name |-> name, d_type |-> type, status |-> status, cmdline |-> cmdline]

ProcessEntries ==
    { DirEntry(n, "DT_DIR", st, cm) :
        n \in PidNames, st \in StatusFiles, cm \in CmdlineFiles }

\* entries of /proc that are not process directories
OtherEntries ==
    { DirEntry(TxtSelf, "DT_LNK", Absent, Absent),
      DirEntry(TxtUptime, "DT_REG", Absent, Absent),
      DirEntry(<<"1", "2">>, "DT_REG", Absent, Absent),
      DirEntry(<<"1", "a">>, "DT_DIR", Absent, Absent) }

\* resident memory of the i-th process of a patterned listing
PatternMem(shape, i) ==
    IF shape = "ascending" THEN 512 * i ELSE 1024 * (i % 3)

PatternEntry(shape, i) ==
    DirEntry(ToDigits(100 + i), "DT_DIR",
             StatusOf(NameOfLen(1 + (i % 3)), "S", PatternMem(shape, i)),
             IF i % 2 = 0 THEN Absent ELSE File(CmdOfLen(1 + (i % 4))))

\* the directory streams readdir may walk: one entry of any kind, or "self"
\* followed by n process directories
Listings ==
    { <<>> }
      \cup { <<e>> : e \in ProcessEntries \cup OtherEntries }
      \cup { <<DirEntry(TxtSelf, "DT_LNK", Absent, Absent)>>
               \o [i \in 1..n |-> PatternEntry(shape, i)] :
             n \in 1..MaxProcs, shape \in {"ascending", "ties"} }

\* values an uninitialised char may hold
Garbage == {"?", "X", NUL}

(***************************************************************************)
(* The program state.                                                      *)
(***************************************************************************)
VARIABLES
    pc,         \* where main() is: loop, opendir, readdir, display, sleep,
                \* exit (return 1), aborted (std::terminate)
    cout,       \* the format state of std::cout
    sys,        \* SystemInfo sys
    processes,  \* std::vector<ProcessInfo> processes
    proc_dir,   \* DIR* proc_dir: unset, NULL, open, closed
    dir,        \* the entries the open directory stream yields
    pos,        \* how many of them readdir has returned
    out,        \* the lines written to std::cout in this iteration
    cleared,    \* system("clear") has run in this iteration
    slept,      \* sleep(2) has run in this iteration
    err,        \* the message on std::cerr has been written
    exit_code,  \* none, "1" (return 1) or SIGABRT (uncaught exception)
    meminfo,    \* /proc/meminfo as read in this iteration
    loadavg,    \* /proc/loadavg as read in this iteration
    collected,  \* the vector as handed to display() in this iteration
    shown,      \* the records display() wrote a row for in this iteration
    later       \* an earlier iteration has run to its end

vars == <<pc, cout, sys, processes, proc_dir, dir, pos, out, cleared, slept,
          err, exit_code, meminfo, loadavg, collected, shown, later>>

Init ==
    /\ pc = "loop"
    /\ cout = CoutInit
    /\ sys = SystemInfo
    /\ processes = <<>>
    /\ proc_dir = "unset"
    /\ dir = <<>>
    /\ pos = 0
    /\ out = <<>>
    /\ cleared = FALSE
    /\ slept = FALSE
    /\ err = FALSE
    /\ exit_code = "none"
    /\ meminfo = Absent
    /\ loadavg = Absent
    /\ collected = <<>>
    /\ shown = <<>>
    /\ later = FALSE

\* the vector declared before the loop instead: it keeps its elements
KeepProcesses == processes

\* std::vector<ProcessInfo> processes; declared inside the loop body
NewProcesses == <<>>

\* the top of the loop body: SystemInfo sys = getSystemInfo(); and the
\* declaration of processes.  What the previous iteration left is gone.
BeginIteration ==
    /\ pc = "loop"
    /\ \E m \in MeminfoFiles, l \in LoadavgFiles :
         /\ meminfo' = m
         /\ loadavg' = l
         /\ sys' = getSystemInfo(m, l)
    /\ processes' = NewProcesses
    /\ proc_dir' = "unset"
    /\ dir' = <<>>
    /\ pos' = 0
    /\ out' = <<>>
    /\ cleared' = FALSE
    /\ slept' = FALSE
    /\ collected' = <<>>
    /\ shown' = <<>>
    /\ pc' = "opendir"
    /\ UNCHANGED <<cout, err, exit_code, later>>

\* the failure branch written with continue for return 1: it tries again
OpenDirFailRetry ==
    /\ pc = "opendir"
    /\ proc_dir' = "NULL"
    /\ err' = TRUE
    /\ pc' = "loop"
    /\ UNCHANGED <<cout, sys, processes, dir, pos, out, cleared, slept,
                   exit_code, meminfo, loadavg, collected, shown, later>>

\* opendir("/proc") returns NULL: the message and return 1
OpenDirFail ==
    /\ pc = "opendir"
    /\ proc_dir' = "NULL"
    /\ err' = TRUE
    /\ exit_code' = "1"
    /\ pc' = "exit"
    /\ UNCHANGED <<cout, sys, processes, dir, pos, out, cleared, slept,
                   meminfo, loadavg, collected, shown, later>>

\* opendir("/proc") succeeds
OpenDirOk ==
    /\ pc = "opendir"
    /\ \E d \in Listings : dir' = d
    /\ proc_dir' = "open"
    /\ pos' = 0
    /\ pc' = "readdir"
    /\ UNCHANGED <<cout, sys, processes, out, cleared, slept, err, exit_code,
                   meminfo, loadavg, collected, shown, later>>

\* entry->d_type == DT_DIR && isNumeric(entry->d_name)
IsProcessEntry(e) == e.d_type = "DT_DIR" /\ isNumeric(e.d_name)

\* readdir returns a process directory: processes.push_back(getProcessInfo(..)),
\* or the exception getProcessInfo throws, which nothing catches
ReadDirProcess ==
    /\ pc = "readdir"
    /\ pos < Len(dir)
    /\ IsProcessEntry(dir[pos + 1])
    /\ pos' = pos + 1
    /\ \E g \in Garbage :
         LET r == getProcessInfo(dir[pos + 1], g)
         IN  IF r.threw = "none"
               THEN /\ processes' = Append(processes, r.proc)
                    /\ UNCHANGED <<pc, exit_code, later>>
               ELSE /\ pc' = "aborted"
                    /\ exit_code' = "SIGABRT"
                    /\ UNCHANGED processes
    /\ UNCHANGED <<cout, sys, proc_dir, dir, out, cleared, slept, err,
                   meminfo, loadavg, collected, shown, later>>

\* readdir returns an entry that is not a process directory
ReadDirOther ==
    /\ pc = "readdir"
    /\ pos < Len(dir)
    /\ ~IsProcessEntry(dir[pos + 1])
    /\ pos' = pos + 1
    /\ UNCHANGED <<pc, cout, sys, processes, proc_dir, dir, out, cleared,
                   slept, err, exit_code, meminfo, loadavg, collected, shown,
                   later>>

\* readdir returns NULL: closedir(proc_dir)
ReadDirEnd ==
    /\ pc = "readdir"
    /\ pos = Len(dir)
    /\ proc_dir' = "closed"
    /\ pc' = "display"
    /\ UNCHANGED <<cout, sys, processes, dir, pos, out, cleared, slept, err,
                   exit_code, meminfo, loadavg, collected, shown, later>>

\* display(sys, processes): the clear, the table, the sort in place
Display ==
    /\ pc = "display"
    /\ LET d == display(cout, sys, processes)
       IN  /\ cleared' = TRUE
           /\ out' = d.lines
           /\ processes' = d.processes
           /\ shown' = d.shown
           /\ cout' = d.cout
    /\ collected' = processes
    /\ pc' = "sleep"
    /\ UNCHANGED <<sys, proc_dir, dir, pos, slept, err, exit_code, meminfo,
                   loadavg, later>>

\* sleep(2), then the next iteration
Sleep ==
    /\ pc = "sleep"
    /\ slept' = TRUE
    /\ later' = TRUE
    /\ pc' = "loop"
    /\ UNCHANGED <<cout, sys, processes, proc_dir, dir, pos, out, cleared,
                   err, exit_code, meminfo, loadavg, collected, shown>>

Next ==
    \/ BeginIteration
    \/ OpenDirFail
    \/ OpenDirOk
    \/ ReadDirProcess
    \/ ReadDirOther
    \/ ReadDirEnd
    \/ Display
    \/ Sleep

Spec == Init /\ [][Next]_vars

(***************************************************************************)
(* Properties.  The table display() writes has 8 lines before the process  *)
(* section: out[9] is the first row.                                       *)
(***************************************************************************)
Min(a, b) == IF a < b THEN a ELSE b
Max(a, b) == IF a > b THEN a ELSE b

FirstRow == 8 + 1

NoSpaces(s) == SelectSeq(s, LAMBDA c : c # SP)

\* a line that is a border character, blanks only, a border character
IsBlankInterior(line) ==
    /\ Len(line) > 2
    /\ line[1] = "|" /\ line[Len(line)] = "|"
    /\ \A i \in 2..(Len(line) - 1) : line[i] = SP

\* the process directories among the entries readdir has returned so far
Enumerated == SelectSeq(SubSeq(dir, 1, pos), IsProcessEntry)

\* C1: after display() the data rows are in non-increasing order of
\* vmrss_kb, each row is the row of the record at its rank, and no collected
\* process without a row has more resident memory than one with a row.
C1_RowsSortedByMemory ==
    cleared =>
      /\ \A i \in 1..(Len(shown) - 1) :
           shown[i].vmrss_kb >= shown[i + 1].vmrss_kb
      /\ \A i \in 1..Len(shown) : out[FirstRow + i - 1] = RowLine(shown[i])
      /\ \A i \in 1..Len(shown) : \E j \in 1..Len(collected) : collected[j] = shown[i]
      /\ \A j \in 1..Len(collected) :
           (\A i \in 1..Len(shown) : shown[i] # collected[j])
             => \A i \in 1..Len(shown) :
                  collected[j].vmrss_kb <= shown[i].vmrss_kb

\* more than 25 processes, collected out of order, with a tie among the rows
C1_Witness ==
    /\ cleared
    /\ Len(collected) > 25
    /\ \E i \in 1..(Len(collected) - 1) :
         collected[i].vmrss_kb < collected[i + 1].vmrss_kb
    /\ \E i \in 1..(Len(shown) - 1) : shown[i].vmrss_kb = shown[i + 1].vmrss_kb
    /\ \E i \in 1..(Len(shown) - 1) : shown[i].vmrss_kb > shown[i + 1].vmrss_kb

\* C2: one call of display() writes min(n, 25) populated rows, then
\* 25 - min(n, 25) blank rows, then the closing border: 34 lines in all,
\* whatever the number n of collected processes.
C2_AlwaysTwentyFiveRows ==
    cleared =>
      LET n == Len(collected)
          k == Min(n, 25)
      IN  /\ Len(out) = 8 + 25 + 1
          /\ Len(shown) = k
          /\ \A i \in 1..k : ~IsBlankInterior(out[FirstRow + i - 1])
          /\ \A i \in (k + 1)..25 :
               /\ IsBlankInterior(out[FirstRow + i - 1])
               /\ Len(out[FirstRow + i - 1]) = 88
          /\ out[FirstRow + 25] = BorderLine

\* 26 processes: one more than the rows of the section
C2_Witness == cleared /\ Len(collected) = 26 /\ Len(shown) = 25

\* C3: when opendir fails the program has returned 1 without clearing the
\* screen, writing a line of the table, sleeping or collecting a process,
\* and it takes no further step.
C3_OpenFailureIsFatal ==
    /\ proc_dir = "NULL" =>
         /\ pc = "exit"
         /\ exit_code = "1"
         /\ ~cleared
         /\ out = <<>>
         /\ ~slept
         /\ processes = <<>>
    /\ pc = "exit" => ~ENABLED Next

\* opendir fails in an iteration after the first
C3_Witness == pc = "exit" /\ proc_dir = "NULL" /\ later /\ err

\* C4: every process directory readdir has returned has its record in the
\* vector, and the program stops only when opendir has failed.
C4_EveryEntryYieldsRecord ==
    /\ pc \in {"readdir", "aborted"} => Len(processes) = Len(Enumerated)
    /\ exit_code # "none" => proc_dir = "NULL"

\* C5: what display() writes depends on the snapshot alone: in every
\* iteration it is the text a stream in its initial format state (the
\* stream of the first iteration) yields for the same sys and processes.
C5_ByteStableOutput ==
    cleared => out = display(CoutInit, sys, collected).lines

\* the row display() writes for a record of defaults with this pid
DefaultRow(pid) ==
    TxtOpen \o Put(ToDigits(pid), 8, "left")
      \o DefaultName \o Rep(17, SP)
      \o <<"?">> \o Rep(3, SP)
      \o Rep(8, SP) \o <<"0", ".", "0", "M">>
      \o <<SP, SP>> \o DefaultCmdline \o Rep(28, SP) \o TxtClose

ExpectedCommand(f) ==
    LET line == IF f.is_open THEN ReplaceNul(UpToNewline(f.data)) ELSE <<>>
    IN  IF line = <<>> THEN DefaultCmdline ELSE line

\* the row of a record of defaults but for its command
StatuslessRow(pid, cmd) ==
    TxtOpen \o Put(ToDigits(pid), 8, "left")
      \o DefaultName \o Rep(17, SP)
      \o <<"?">> \o Rep(3, SP)
      \o Rep(8, SP) \o <<"0", ".", "0", "M">>
      \o <<SP, SP>>
      \o (IF Len(cmd) > 34 THEN SubSeq(cmd, 1, 34) \o <<".", ".", ".">>
          ELSE cmd \o Rep(36 - Len(cmd), SP))
      \o TxtClose

NameColumn(proc) == 2 + Max(8, Len(ToDigits(proc.pid))) + 1

\* C7: in every data row the name column holds the name when it has at most
\* 18 characters and else its first 18 characters and two dots, and the
\* command column holds the command when it has at most 34 characters and
\* else its first 34 characters and three dots.
C7_TruncationRule ==
    cleared =>
      \A i \in 1..Len(shown) :
        LET line == out[FirstRow + i - 1]
            name == shown[i].name
            cmd  == shown[i].cmdline
            n    == IF Len(name) <= 18 THEN name
                    ELSE SubSeq(name, 1, 18) \o <<".", ".">>
            c    == IF Len(cmd) <= 34 THEN cmd
                    ELSE SubSeq(cmd, 1, 34) \o <<".", ".", ".">>
            at   == NameColumn(shown[i])
            cw   == Max(36, Len(c))
        IN  /\ SubSeq(line, at, at + 19) = n \o Rep(20 - Len(n), SP)
            /\ SubSeq(line, Len(line) - 1 - cw, Len(line) - 2)
                 = c \o Rep(cw - Len(c), SP)
            /\ SubSeq(line, Len(line) - 4 - cw, Len(line) - 2 - cw)
                 = <<"M", SP, SP>>

\* a row whose name has 19 characters and whose command has 35
C7_Witness ==
    /\ cleared
    /\ \E i \in 1..Len(shown) :
         /\ Len(shown[i].name) = 19
         /\ Len(shown[i].cmdline) = 35

\* C8: every line display() writes is 88 characters long: a border
\* character, 86 interior columns, a border character.
C8_UniformLineWidth ==
    \A i \in 1..Len(out) : Len(out[i]) = 1 + 86 + 1

\* C9: the loop has no terminal state while opendir succeeds, and within an
\* iteration the reads end before the clear, the clear precedes the table
\* and the sleep follows it.
C9_LoopNeverEnds ==
    /\ proc_dir # "NULL" => pc \notin {"exit", "aborted"}
    /\ cleared => proc_dir = "closed" /\ pos = Len(dir)
    /\ out # <<>> => cleared
    /\ slept => cleared /\ out[Len(out)] = BorderLine

\* C10: what display() was given and wrote comes from this iteration's
\* reads: sys is what getSystemInfo makes of the files read in it, the
\* vector holds one record per process directory enumerated in it, in
\* order, the count line shows their number, and every row is the row of
\* one of them.
C10_SnapshotOfThisIteration ==
    cleared =>
      /\ sys = getSystemInfo(meminfo, loadavg)
      /\ \E a \in {"none", "left", "right"} :
           out[4] = SummaryLine(getSystemInfo(meminfo, loadavg), a)
      /\ Len(collected) = Len(Enumerated)
      /\ \A i \in 1..Len(collected) :
           \E g \in Garbage :
             collected[i] = getProcessInfo(Enumerated[i], g).proc
      /\ NoSpaces(SubSeq(out[5], Len(TxtTotal) + 1, Len(out[5]) - 2))
           = ToDigits(Len(Enumerated))
      /\ \A i \in 1..Len(shown) :
           /\ \E j \in 1..Len(collected) : shown[i] = collected[j]
           /\ out[FirstRow + i - 1] = RowLine(shown[i])

\* a later iteration that enumerates more processes than it shows
C10_Witness ==
    /\ cleared
    /\ later
    /\ Len(Enumerated) > Len(shown)
    /\ Len(shown) > 0
    /\ meminfo.is_open

=============================================================================
